---- MODULE Spec2Model ----
(***************************************************************************)
(* Planner core of claude-task-master: the token budget partitioner        *)
(* (services/planner/app/domain/budget.py), the plan graph assembler       *)
(* (plan_builder.py and the phase builders deps_db.py, deps_be.py,         *)
(* deps_fe.py), the complexity scorer (ccs.py), the coverage check         *)
(* (coverage.py) and the orchestrator that runs them (planner_service.py). *)
(*                                                                         *)
(* Node positions and edge endpoints are 0-based as in the source; TLA+    *)
(* sequences are 1-based, so the node at position p is nodes[p + 1].       *)
(* A description is the sequence of its whitespace-separated words; the    *)
(* code only counts, slices and joins words, so a word is modelled by its  *)
(* origin (which text it came from and its position there).                *)
(***************************************************************************)
EXTENDS Integers, Sequences, FiniteSets, TLC

VARIABLES
    ingestion,            \* build_plan: the IngestionResult (contract and PRD)
    capacity,             \* plan_budgets: capacity
    token_floor,          \* plan_budgets: token_floor
    nodes,                \* plan_budgets: the input node list
    edges,                \* build_plan's edge list / plan_budgets' input edge list
    pc,                   \* position in plan_budgets / _partition_node
    cur,                  \* 1-based index of the node being partitioned
    part_count,           \* _partition_node: the k-way loop variable
    greedy,               \* _partition_node: locals of the greedy fallback
    partitions_per_node,  \* plan_budgets: one partition list per input node
    result,               \* the PlanBudgetingResult, once returned
    complexities,         \* create_plan: the list compute_complexity returned
    coverage,             \* create_plan: the CoverageResult
    fit_returned          \* the word list _fit_words_to_capacity returned

vars == <<ingestion, capacity, token_floor, nodes, edges, pc, cur, part_count, greedy,
          partitions_per_node, result, complexities, coverage, fit_returned>>

----------------------------------------------------------------------------
(* Bounds of the model.                                                    *)

MaxWords == 3
MaxTasks == 3
MaxCriteria == 2
MaxNodes == 2
MaxEdges == 1

(* Program constants.                                                      *)

TokenMin == 32
TokenBase == 128
TaskCost == 40
CriterionCost == 20
MaxPartsCap == 128
SummaryCap == 40

----------------------------------------------------------------------------
(* Generic helpers.                                                        *)

Max(a, b) == IF a >= b THEN a ELSE b

Min(a, b) == IF a <= b THEN a ELSE b

Range(s) == {s[i] : i \in 1..Len(s)}

RECURSIVE Flatten(_)
Flatten(ss) == IF ss = <<>> THEN <<>> ELSE Head(ss) \o Flatten(Tail(ss))

RECURSIVE SumLen(_)
SumLen(ss) == IF ss = <<>> THEN 0 ELSE Len(Head(ss)) + SumLen(Tail(ss))

(* Python's seq[:n]                                                         *)
Prefix(s, n) == SubSeq(s, 1, Min(n, Len(s)))

----------------------------------------------------------------------------
(* Words and titles.                                                       *)

DescWord(i) == [kind |-> "desc", part |-> 0, of |-> 0, pos |-> i]

DescWords(n) == [i \in 1..n |-> DescWord(i)]

Title(name) == [name |-> name, part |-> 0, of |-> 0]

(* Number of whitespace-separated words of "<title>." : the full stop      *)
(* joins the last title word, or stands alone when the title is empty.     *)
TitleTailWords(title) ==
    Max(1, Len(title.name)
           + (IF title.part = 0 THEN 0 ELSE IF title.of = 0 THEN 2 ELSE 4))

(* f"Subtask {idx + 1} of {part_count} continuing {node.title}.".split()   *)
NoteWords(idx, count, title) ==
    [j \in 1..(5 + TitleTailWords(title)) |->
        [kind |-> "note", part |-> idx, of |-> count, pos |-> j]]

(* f"Subtask {part_index} of partition for {node.title}.".split()          *)
GreedyNoteWords(idx, title) ==
    [j \in 1..(5 + TitleTailWords(title)) |->
        [kind |-> "gnote", part |-> idx, of |-> 0, pos |-> j]]

----------------------------------------------------------------------------
(* Token estimates.                                                        *)

estimate_tokens(word_count) ==
    Max(TokenMin, ((word_count * 3) \div 2) + TokenBase)

(* _estimate_node_budget without the floor.                                *)
EstimateNodeBudgetNoFloor(node, floor) ==
    estimate_tokens(Len(node.description))
      + TaskCost * Len(node.tasks)
      + CriterionCost * Len(node.acceptance_criteria)

_estimate_node_budget(node, floor) ==
    Max(estimate_tokens(Len(node.description))
          + TaskCost * Len(node.tasks)
          + CriterionCost * Len(node.acceptance_criteria),
        floor)

_estimate_budget_from_counts(word_count, task_count, criteria_count, floor) ==
    Max(estimate_tokens(word_count)
          + task_count * TaskCost + criteria_count * CriterionCost,
        floor)

(* _split_sequence without the remainder: every chunk has total // parts   *)
(* items and the last total % parts items are in no chunk.                 *)
SplitSequenceNoRemainder(seq, parts) ==
    IF parts <= 0 THEN << <<>> >>
    ELSE LET base == Len(seq) \div parts
         IN  [i \in 1..parts |-> SubSeq(seq, (i - 1) * base + 1, i * base)]

(* _split_sequence: `parts` near-equal contiguous chunks, the remainder    *)
(* going to the first chunks.                                              *)
_split_sequence(seq, parts) ==
    IF parts <= 0 THEN << <<>> >>
    ELSE LET total == Len(seq)
             base == total \div parts
             remainder == total % parts
             size(i) == base + (IF i < remainder THEN 1 ELSE 0)
             index(i) == i * base + Min(i, remainder)
         IN  [i \in 1..parts |->
                IF size(i - 1) <= 0 THEN <<>>
                ELSE SubSeq(seq, index(i - 1) + 1, index(i - 1) + size(i - 1))]

(* estimate_with_count without the floor.                                  *)
EstimateWithCountNoFloor(word_count, task_count, criteria_count, floor) ==
    estimate_tokens(word_count) + task_count * TaskCost + criteria_count * CriterionCost

(* estimate_with_count, the closure of _fit_words_to_capacity: the budget   *)
(* of a part whose description is the first word_count words.              *)
estimate_with_count(word_count, task_count, criteria_count, floor) ==
    Max(estimate_tokens(word_count)
          + task_count * TaskCost + criteria_count * CriterionCost,
        floor)

(* _fit_words_to_capacity: binary search for a prefix of `words`.          *)
RECURSIVE fit_search(_, _, _, _, _, _, _, _)
fit_search(words, cap, task_count, criteria_count, floor, low, high, best) ==
    IF low > high THEN best
    ELSE LET mid == (low + high) \div 2
             budget == estimate_with_count(mid, task_count, criteria_count, floor)
         IN  IF budget <= cap
             THEN fit_search(words, cap, task_count, criteria_count, floor,
                             mid + 1, high, Prefix(words, mid))
             ELSE fit_search(words, cap, task_count, criteria_count, floor,
                             low, mid - 1, best)

_fit_words_to_capacity(words, cap, task_count, criteria_count, floor) ==
    IF cap <= 0 THEN <<>>
    ELSE fit_search(words, cap, task_count, criteria_count, floor,
                    0, Len(words), <<>>)

----------------------------------------------------------------------------
(* _partition_node.                                                        *)

Part(node, budget) == [node |-> node, budget |-> budget]

(* ceil(base_budget / capacity) for capacity # 0                           *)
CeilDiv(a, b) ==
    IF b > 0 THEN (a + b - 1) \div b
    ELSE -((a) \div (-b))

(* The search starting at three parts or more.                             *)
RequiredPartsThree(node, cap, floor) ==
    Max(3, CeilDiv(_estimate_node_budget(node, floor), cap))

(* The search starting one part count too high.                           *)
RequiredPartsPlusOne(node, cap, floor) ==
    Max(2, CeilDiv(_estimate_node_budget(node, floor), cap)) + 1

required_parts(node, cap, floor) ==
    Max(2, CeilDiv(_estimate_node_budget(node, floor), cap))

(* max_parts without the limit of 128.                                     *)
MaxPartsUncapped(node, cap, floor) ==
    LET required == required_parts(node, cap, floor)
        items == Len(node.tasks) + Len(node.acceptance_criteria)
        words == Len(node.description)
    IN  Max(required * 2,
            Max(IF items > 0 THEN items ELSE required,
                IF words > 0 THEN words ELSE required))

max_parts(node, cap, floor) ==
    LET required == required_parts(node, cap, floor)
        items == Len(node.tasks) + Len(node.acceptance_criteria)
        words == Len(node.description)
    IN  Min(MaxPartsCap,
            Max(required * 2,
                Max(IF items > 0 THEN items ELSE required,
                    IF words > 0 THEN words ELSE required)))

summary_words(node) ==
    Prefix(node.description, Min(Len(node.description), SummaryCap))

(* A part whose instructions are built afresh instead of copied: the      *)
(* operation references of the original are lost.                          *)
PartNodeFreshInstructions(node, part, of, description, tasks, criteria) ==
    [node EXCEPT !.title = [name |-> node.title.name, part |-> part, of |-> of],
                 !.description = description,
                 !.tasks = tasks,
                 !.acceptance_criteria = criteria,
                 !.contractOps = <<>>]

(* The NodeSpec built for a part: title, description, tasks and criteria   *)
(* are the part's own, every other field is copied from the original.      *)
PartNode(node, part, of, description, tasks, criteria) ==
    [node EXCEPT !.title = [name |-> node.title.name, part |-> part, of |-> of],
                 !.description = description,
                 !.tasks = tasks,
                 !.acceptance_criteria = criteria]

(* The body of the loop over idx: the part at 0-based position idx of a    *)
(* split into `count` parts.                                               *)
KWayPart(node, cap, floor, count, idx) ==
    LET part_tasks == _split_sequence(node.tasks, count)[idx + 1]
        part_criteria == _split_sequence(node.acceptance_criteria, count)[idx + 1]
        desc_chunk == _split_sequence(node.description, count)[idx + 1]
        note_words == IF count > 1 THEN NoteWords(idx + 1, count, node.title) ELSE <<>>
        base_words == IF desc_chunk # <<>> THEN desc_chunk ELSE summary_words(node)
        words_for_partition == base_words \o note_words
        fitted == _fit_words_to_capacity(words_for_partition, cap,
                                         Len(part_tasks), Len(part_criteria), floor)
        fitted_words == IF fitted = <<>> /\ words_for_partition # <<>>
                        THEN Prefix(words_for_partition, 1) ELSE fitted
        part_node == PartNode(node, idx + 1, count, fitted_words, part_tasks, part_criteria)
    IN  Part(part_node, _estimate_node_budget(part_node, floor))

(* One iteration of the loop over part_count: the parts, and whether every *)
(* one of them is within capacity.                                         *)
KWayParts(node, cap, floor, count) ==
    [i \in 1..count |-> KWayPart(node, cap, floor, count, i - 1)]

KWayValid(node, cap, floor, count) ==
    LET parts == KWayParts(node, cap, floor, count)
    IN  /\ \A i \in 1..count : parts[i].budget <= cap
        /\ parts # <<>>

(* The greedy fallback.  One pass of the `while changed` body: a task, a   *)
(* criterion and a word are each pulled from the front of their queue if   *)
(* the part stays within capacity; passes repeat until one changes nothing.*)
GreedyPass(g, cap, floor) ==
    LET g1 == IF /\ g.remaining_tasks # <<>>
                 /\ _estimate_budget_from_counts(Len(g.part_words), Len(g.part_tasks) + 1,
                                                 Len(g.part_criteria), floor) <= cap
              THEN [g EXCEPT !.part_tasks = Append(@, Head(g.remaining_tasks)),
                             !.remaining_tasks = Tail(@)]
              ELSE g
        g2 == IF /\ g1.remaining_criteria # <<>>
                 /\ _estimate_budget_from_counts(Len(g1.part_words), Len(g1.part_tasks),
                                                 Len(g1.part_criteria) + 1, floor) <= cap
              THEN [g1 EXCEPT !.part_criteria = Append(@, Head(g1.remaining_criteria)),
                              !.remaining_criteria = Tail(@)]
              ELSE g1
        g3 == IF /\ g2.remaining_words # <<>>
                 /\ _estimate_budget_from_counts(Len(g2.part_words) + 1, Len(g2.part_tasks),
                                                 Len(g2.part_criteria), floor) <= cap
              THEN [g2 EXCEPT !.part_words = Append(@, Head(g2.remaining_words)),
                              !.remaining_words = Tail(@)]
              ELSE g2
    IN  g3

RECURSIVE GreedyFill(_, _, _)
GreedyFill(g, cap, floor) ==
    LET next == GreedyPass(g, cap, floor)
    IN  IF next = g THEN g ELSE GreedyFill(next, cap, floor)

(* The part the greedy fallback emits for the items it pulled.             *)
GreedyPart(node, cap, floor, g) ==
    LET description_words ==
            (IF g.part_words # <<>> THEN g.part_words ELSE summary_words(node))
            \o GreedyNoteWords(g.part_index, node.title)
        fitted == _fit_words_to_capacity(description_words, cap,
                                         Len(g.part_tasks), Len(g.part_criteria), floor)
        part_node == PartNode(node, g.part_index, 0, fitted, g.part_tasks, g.part_criteria)
    IN  Part(part_node, Min(_estimate_node_budget(part_node, floor), cap))

(* The last resort reporting the node's own budget, uncapped.              *)
UnsplitFallbackUncapped(node, cap, floor) ==
    << Part(node, _estimate_node_budget(node, floor)) >>

(* The last resort: the node itself, its budget capped at capacity.        *)
UnsplitFallback(node, cap, floor) ==
    << Part(node, Min(_estimate_node_budget(node, floor), cap)) >>

GreedyIdle ==
    [remaining_tasks |-> <<>>, remaining_criteria |-> <<>>, remaining_words |-> <<>>,
     part_tasks |-> <<>>, part_criteria |-> <<>>, part_words |-> <<>>,
     part_index |-> 0, partitions |-> <<>>]

(* The fallback set up without the queue of description words.            *)
GreedyStartWithoutWords(node) ==
    [GreedyIdle EXCEPT !.remaining_tasks = node.tasks,
                       !.remaining_criteria = node.acceptance_criteria]

GreedyStart(node) ==
    [GreedyIdle EXCEPT !.remaining_tasks = node.tasks,
                       !.remaining_criteria = node.acceptance_criteria,
                       !.remaining_words = node.description]

GreedyPending(g) ==
    g.remaining_tasks # <<>> \/ g.remaining_criteria # <<>> \/ g.remaining_words # <<>>

----------------------------------------------------------------------------
(* Edges and _rewire_edges.                                                *)

EdgeSpec(from_index, to_index, description, artifact_type) ==
    [from_index |-> from_index, to_index |-> to_index,
     description |-> description, artifact_type |-> artifact_type]

(* An edge description: a free text, or the text the partitioner writes    *)
(* followed by the original node's title.                                  *)
Description(text) == [text |-> text, title |-> <<>>]

PartitionOrderDescription(title) == [text |-> "Partition order for", title |-> title.name]

(* plan_budgets' index_mapping: original position -> output positions.     *)
IndexMapping(partitions) ==
    [original_index \in 0..(Len(partitions) - 1) |->
        LET start == SumLen(SubSeq(partitions, 1, original_index))
        IN  [j \in 1..Len(partitions[original_index + 1]) |-> start + j - 1]]

MappingGet(mapping, index) ==
    IF index \in DOMAIN mapping THEN mapping[index] ELSE <<>>

(* Rewiring that passes on unchanged an edge with an endpoint that is no   *)
(* position, instead of dropping it.                                       *)
RewiredEdgesKeepingUnmapped(edge_list, mapping) ==
    [i \in 1..Len(edge_list) |->
        IF /\ MappingGet(mapping, edge_list[i].from_index) # <<>>
           /\ MappingGet(mapping, edge_list[i].to_index) # <<>>
        THEN LET from_indices == mapping[edge_list[i].from_index]
                 to_indices == mapping[edge_list[i].to_index]
             IN  EdgeSpec(from_indices[Len(from_indices)], to_indices[1],
                          edge_list[i].description, edge_list[i].artifact_type)
        ELSE edge_list[i]]

(* Rewiring that leaves an edge on the first partition of its source.      *)
RewiredEdgesFromFirst(edge_list, mapping) ==
    LET kept == SelectSeq(edge_list,
                          LAMBDA edge : /\ MappingGet(mapping, edge.from_index) # <<>>
                                        /\ MappingGet(mapping, edge.to_index) # <<>>)
    IN  [i \in 1..Len(kept) |->
            EdgeSpec(mapping[kept[i].from_index][1], mapping[kept[i].to_index][1],
                     kept[i].description, kept[i].artifact_type)]

RewiredEdges(edge_list, mapping) ==
    LET kept == SelectSeq(edge_list,
                          LAMBDA edge : /\ MappingGet(mapping, edge.from_index) # <<>>
                                        /\ MappingGet(mapping, edge.to_index) # <<>>)
    IN  [i \in 1..Len(kept) |->
            LET from_indices == mapping[kept[i].from_index]
                to_indices == mapping[kept[i].to_index]
            IN  EdgeSpec(from_indices[Len(from_indices)], to_indices[1],
                         kept[i].description, kept[i].artifact_type)]

(* Partition-order edges that all leave the first partition.               *)
PartitionOrderEdgesFromFirst(mapping, original_nodes) ==
    Flatten([n \in 1..Len(original_nodes) |->
        LET new_indices == mapping[n - 1]
        IN  IF Len(new_indices) <= 1 THEN <<>>
            ELSE [j \in 1..(Len(new_indices) - 1) |->
                    EdgeSpec(new_indices[1], new_indices[j + 1],
                             PartitionOrderDescription(original_nodes[n].title), "None")]])

PartitionOrderEdges(mapping, original_nodes) ==
    Flatten([n \in 1..Len(original_nodes) |->
        LET new_indices == mapping[n - 1]
        IN  IF Len(new_indices) <= 1 THEN <<>>
            ELSE [j \in 1..(Len(new_indices) - 1) |->
                    EdgeSpec(new_indices[j], new_indices[j + 1],
                             PartitionOrderDescription(original_nodes[n].title), "None")]])

_rewire_edges(edge_list, mapping, original_nodes) ==
    RewiredEdges(edge_list, mapping) \o PartitionOrderEdges(mapping, original_nodes)

----------------------------------------------------------------------------
(* plan_budgets, after the partition of every node.                        *)

(* Only the first part of every partition goes to the output list.        *)
NewNodesFirstPartOnly(partitions) ==
    [i \in 1..Len(partitions) |-> partitions[i][1].node]

NewNodes(partitions) ==
    LET flat == Flatten(partitions) IN [i \in 1..Len(flat) |-> flat[i].node]

Budgets(partitions) ==
    LET flat == Flatten(partitions) IN [i \in 1..Len(flat) |-> flat[i].budget]

(* [idx for idx, budget in enumerate(budgets) if budget > capacity]        *)
Violations(budgets, cap) ==
    LET over == SelectSeq([i \in 1..Len(budgets) |-> i], LAMBDA i : budgets[i] > cap)
    IN  [i \in 1..Len(over) |-> over[i] - 1]

PlanBudgetingResult(partitions, edge_list, original_nodes, cap) ==
    [nodes |-> NewNodes(partitions),
     edges |-> _rewire_edges(edge_list, IndexMapping(partitions), original_nodes),
     budget |-> [budgets |-> Budgets(partitions),
                 capacity |-> cap,
                 violations |-> Violations(Budgets(partitions), cap)]]

NoResult ==
    [nodes |-> <<>>, edges |-> <<>>,
     budget |-> [budgets |-> <<>>, capacity |-> 0, violations |-> <<>>]]

----------------------------------------------------------------------------
(* The phase builders and build_plan.                                      *)

BuiltNode(domain, name, words, ops) ==
    [domain |-> domain,
     title |-> Title(name),
     description |-> DescWords(words),
     tasks |-> <<1, 2, 3>>,
     acceptance_criteria |-> <<1, 2, 3>>,
     contractOps |-> ops,
     requirements_refs |-> <<>>]

OperationIds(operations) == [i \in 1..Len(operations) |-> operations[i].operation_id]

(* build_db_nodes: one node per schema, in the order of the schemas; it    *)
(* references the operations whose JSON text contains the schema's name.   *)
build_db_nodes(contract) ==
    [i \in 1..Len(contract.schemas) |->
        LET name == contract.schemas[i]
        IN  BuiltNode("db", <<"Design", "and", "migrate", name, "table">>, 7,
                      OperationIds(SelectSeq(contract.operations,
                                             LAMBDA op : name \in op.mentions)))]

(* Grouping on the last tag of an operation instead of the first.          *)
GroupTagLast(op) == IF op.tags # <<>> THEN op.tags[Len(op.tags)] ELSE "default"

(* tag = op.tags[0] if op.tags else "default"                              *)
GroupTag(op) == IF op.tags # <<>> THEN op.tags[1] ELSE "default"

(* The keys of `grouped`, in insertion order.                              *)
RECURSIVE GroupedTags(_)
GroupedTags(operations) ==
    IF operations = <<>> THEN <<>>
    ELSE LET before == GroupedTags(SubSeq(operations, 1, Len(operations) - 1))
             tag == GroupTag(operations[Len(operations)])
         IN  IF tag \in Range(before) THEN before ELSE Append(before, tag)

(* build_backend_nodes: one node per group.                                *)
build_backend_nodes(contract) ==
    LET tags == GroupedTags(contract.operations)
    IN  [i \in 1..Len(tags) |->
            LET op_ids == OperationIds(SelectSeq(contract.operations,
                                                 LAMBDA op : GroupTag(op) = tags[i]))
            IN  BuiltNode("be", <<"Implement", "backend", "handlers", "for", tags[i]>>,
                          5 + Len(op_ids), op_ids)]

(* build_frontend_nodes: the shared foundation, then one node per          *)
(* operation; nothing for a contract without operations.                   *)
build_frontend_nodes(contract) ==
    IF contract.operations = <<>> THEN <<>>
    ELSE << BuiltNode("fe", <<"Create", "shared", "frontend", "foundation">>, 9,
                      OperationIds(contract.operations)) >>
         \o [i \in 1..Len(contract.operations) |->
                LET op == contract.operations[i]
                IN  BuiltNode("fe", <<"Build", "UI", "flow", "for", op.operation_id>>,
                              4 + Max(1, op.summary), <<op.operation_id>>)]

repo_node ==
    BuiltNode("package", <<"Request:", "provision", "repository", "scaffold">>, 13, <<>>)

(* The test node without operation references.                            *)
TestNodeWithoutOps(contract) ==
    BuiltNode("test", <<"Construct", "integration", "and", "contract", "tests">>, 12, <<>>)

test_node(contract) ==
    BuiltNode("test", <<"Construct", "integration", "and", "contract", "tests">>, 12,
              OperationIds(contract.operations))

package_node ==
    BuiltNode("package", <<"Finalize", "deployment", "package">>, 12, <<>>)

(* Only the first of the sources linked to `target`.                       *)
EdgesIntoFromFirst(sources, target, text) ==
    [i \in 1..Min(1, Len(sources)) |->
        EdgeSpec(sources[i], target, Description(text), "None")]

(* The edges with source and target exchanged.                             *)
EdgesIntoReversed(sources, target, text) ==
    [i \in 1..Len(sources) |-> EdgeSpec(target, sources[i], Description(text), "None")]

(* Every node of positions `sources` linked to `target`.                   *)
EdgesInto(sources, target, text) ==
    [i \in 1..Len(sources) |-> EdgeSpec(sources[i], target, Description(text), "None")]

(* Every source linked to the first node of the block only.                *)
CrossEdgesFirstTarget(sources, start, count, text) ==
    Flatten([offset \in 1..Min(1, count) |-> EdgesInto(sources, start + offset - 1, text)])

(* for offset in range(count): for src in sources: edge(src, start+offset) *)
CrossEdges(sources, start, count, text) ==
    Flatten([offset \in 1..count |-> EdgesInto(sources, start + offset - 1, text)])

PositionsFrom(start, count) == [i \in 1..count |-> start + i - 1]

(* build_plan building the frontend nodes whatever the PRD says.           *)
BuildPlanIgnoringUiFlag(ing) ==
    LET db_nodes == build_db_nodes(ing.contract)
        backend_nodes == build_backend_nodes(ing.contract)
        fe_nodes == build_frontend_nodes(ing.contract)
        db_start == 1
        be_start == db_start + Len(db_nodes)
        fe_start == be_start + Len(backend_nodes)
        test_idx == fe_start + Len(fe_nodes)
        db_positions == PositionsFrom(db_start, Len(db_nodes))
        be_positions == PositionsFrom(be_start, Len(backend_nodes))
        fe_positions == PositionsFrom(fe_start, Len(fe_nodes))
    IN  [nodes |-> << repo_node >> \o db_nodes \o backend_nodes \o fe_nodes
                   \o << test_node(ing.contract), package_node >>,
         edges |-> CrossEdges(<< 0 >>, db_start, Len(db_nodes), "Repo ready")
                   \o CrossEdges(db_positions, be_start, Len(backend_nodes), "DB schema available")
                   \o CrossEdges(be_positions, fe_start, Len(fe_nodes), "API ready")
                   \o EdgesInto(be_positions, test_idx, "Backend complete")
                   \o EdgesInto(fe_positions, test_idx, "UI ready")
                   \o EdgesInto(db_positions, test_idx, "DB migrations ready")
                   \o << EdgeSpec(test_idx, test_idx + 1, Description("Tests green"), "None") >>]

build_plan(ing) ==
    LET db_nodes == build_db_nodes(ing.contract)
        backend_nodes == build_backend_nodes(ing.contract)
        fe_nodes == IF ing.prd.has_ui THEN build_frontend_nodes(ing.contract) ELSE <<>>
        repo_idx == 0
        db_start == 1
        be_start == db_start + Len(db_nodes)
        fe_start == be_start + Len(backend_nodes)
        test_idx == fe_start + Len(fe_nodes)
        package_idx == test_idx + 1
        db_positions == PositionsFrom(db_start, Len(db_nodes))
        be_positions == PositionsFrom(be_start, Len(backend_nodes))
        fe_positions == PositionsFrom(fe_start, Len(fe_nodes))
    IN  [nodes |-> << repo_node >> \o db_nodes \o backend_nodes \o fe_nodes
                   \o << test_node(ing.contract), package_node >>,
         edges |-> CrossEdges(<< repo_idx >>, db_start, Len(db_nodes), "Repo ready")
                   \o CrossEdges(db_positions, be_start, Len(backend_nodes), "DB schema available")
                   \o CrossEdges(be_positions, fe_start, Len(fe_nodes), "API ready")
                   \o EdgesInto(be_positions, test_idx, "Backend complete")
                   \o EdgesInto(fe_positions, test_idx, "UI ready")
                   \o EdgesInto(db_positions, test_idx, "DB migrations ready")
                   \o << EdgeSpec(test_idx, package_idx, Description("Tests green"), "None") >>]

----------------------------------------------------------------------------
(* compute_complexity.  The scores are floats in the source; the model     *)
(* keeps them exact: a component is a number of 120ths (every component is *)
(* a multiple of 1/6, 1/8 or 1/10), a value rounded to two decimals is a   *)
(* number of hundredths.  A task is modelled by a number: equal numbers    *)
(* are equal strings, and task 0 is a task whose text contains "research". *)

Unit == 120

MentionsResearch(task) == task = 0

(* round(numerator / denominator) for a quotient that is no tie.           *)
RoundNearest(numerator, denominator) ==
    (2 * numerator + denominator) \div (2 * denominator)

(* _score_components without the caps min(1.0, ...).                       *)
ScoreComponentsUncapped(node, in_degree, out_degree) ==
    LET tasks == node.tasks
        contract_refs == node.contractOps
        distinct == Cardinality(Range(tasks))
    IN  [d |-> (in_degree + out_degree + Len(contract_refs)) * (Unit \div 6),
         s |-> (Len(tasks) + Len(node.acceptance_criteria)) * (Unit \div 8),
         n |-> IF distinct = 0 THEN Unit \div 10 ELSE distinct * (Unit \div 6),
         a |-> (Len(contract_refs) + Len(node.requirements_refs)) * (Unit \div 6),
         r |-> IF \E i \in 1..Len(tasks) : MentionsResearch(tasks[i])
               THEN 4 * (Unit \div 10) ELSE Unit \div 10]

_score_components(node, in_degree, out_degree) ==
    LET tasks == node.tasks
        contract_refs == node.contractOps
        distinct == Cardinality(Range(tasks))
    IN  [d |-> Min(Unit, (in_degree + out_degree + Len(contract_refs)) * (Unit \div 6)),
         s |-> Min(Unit, (Len(tasks) + Len(node.acceptance_criteria)) * (Unit \div 8)),
         n |-> Min(Unit, IF distinct = 0 THEN Unit \div 10 ELSE distinct * (Unit \div 6)),
         a |-> Min(Unit, (Len(contract_refs) + Len(node.requirements_refs)) * (Unit \div 6)),
         r |-> IF \E i \in 1..Len(tasks) : MentionsResearch(tasks[i])
               THEN 4 * (Unit \div 10) ELSE Unit \div 10]

(* round(component * 100, 2), in hundredths.                               *)
percent(component) == RoundNearest(component * 10000, Unit)

(* ccs = round(weighted * 100, 2), in hundredths; the weights are          *)
(* hundredths themselves.                                                  *)
ccs_of(c) ==
    RoundNearest((30 * c.d + 20 * c.s + 20 * c.n + 15 * c.a + 15 * c.r) * 100, Unit)

(* recommended = max(1, math.ceil(ccs / 15))                               *)
recommended(ccs) == Max(1, (ccs + 1499) \div 1500)

(* 1 - ccs / 200 lies midway between two hundredths: round() then goes by  *)
(* the binary value of the float, up for some ccs and down for others.     *)
ConfidenceTie(ccs) == ccs % 200 = 100

(* confidence = max(0.5, round(1 - (ccs / 200), 2)), in hundredths.        *)
confidence(ccs, tie_up) ==
    Max(50, IF ConfidenceTie(ccs)
            THEN (20000 - ccs) \div 200 + (IF tie_up THEN 1 ELSE 0)
            ELSE RoundNearest(20000 - ccs, 200))

(* PlannerTuning's defaults.                                               *)
default_model_class == "Class-200K"

optional_model_class == "Class-1M"

model_class(ccs) ==
    IF ccs >= 81 * 100 /\ optional_model_class # ""
    THEN optional_model_class ELSE default_model_class

in_degrees(node_list, edge_list) ==
    [idx \in 0..(Len(node_list) - 1) |->
        Cardinality({i \in 1..Len(edge_list) : edge_list[i].to_index = idx})]

out_degrees(node_list, edge_list) ==
    [idx \in 0..(Len(node_list) - 1) |->
        Cardinality({i \in 1..Len(edge_list) : edge_list[i].from_index = idx})]

(* The ComplexityBreakdown of the node at position idx.                    *)
ComplexityBreakdown(node_list, edge_list, idx, tie_up) ==
    LET c == _score_components(node_list[idx + 1], in_degrees(node_list, edge_list)[idx],
                               out_degrees(node_list, edge_list)[idx])
    IN  [node_index |-> idx,
         d |-> percent(c.d), s |-> percent(c.s), n |-> percent(c.n),
         a |-> percent(c.a), r |-> percent(c.r),
         ccs |-> ccs_of(c),
         recommended_subtasks |-> recommended(ccs_of(c)),
         confidence |-> confidence(ccs_of(c), tie_up),
         model_class |-> model_class(ccs_of(c))]

(* The positions whose confidence is a tie.                                *)
TiePositions(node_list, edge_list) ==
    {idx \in 0..(Len(node_list) - 1) :
        ConfidenceTie(ComplexityBreakdown(node_list, edge_list, idx, FALSE).ccs)}

(* compute_complexity; ties_up tells, for each position whose confidence   *)
(* is a tie, which way the float rounds.                                   *)
compute_complexity(node_list, edge_list, ties_up) ==
    [i \in 1..Len(node_list) |->
        ComplexityBreakdown(node_list, edge_list, i - 1,
                            IF (i - 1) \in DOMAIN ties_up THEN ties_up[i - 1] ELSE FALSE)]

----------------------------------------------------------------------------
(* compute_coverage.                                                       *)

(* Python's order of the operation ids of the model.                       *)
IdsAscending == <<"createOrder", "foreignOp", "health", "listUsers">>

(* sorted(ids) for a set of ids.                                           *)
sorted(ids) == SelectSeq(IdsAscending, LAMBDA id : id \in ids)

(* list(ids) for a set of ids, in the order the contract names them.       *)
RECURSIVE Unsorted(_, _)
Unsorted(ids, listed) ==
    IF listed = <<>> THEN <<>>
    ELSE IF Head(listed) \in ids
         THEN <<Head(listed)>> \o Unsorted(ids \ {Head(listed)}, Tail(listed))
         ELSE Unsorted(ids, Tail(listed))

CoverageResult(total_operations, covered_operations, missing_operations) ==
    [total_operations |-> total_operations,
     covered_operations |-> covered_operations,
     missing_operations |-> missing_operations]

NoCoverage == CoverageResult(0, 0, <<>>)

(* compute_coverage returning the missing ids in contract order.           *)
ComputeCoverageUnsorted(operations, covered_operation_ids) ==
    LET all_ops == Range(OperationIds(operations))
        covered == Range(covered_operation_ids)
        missing == Unsorted(all_ops \ covered, OperationIds(operations))
    IN  CoverageResult(Cardinality(all_ops), Cardinality(all_ops) - Len(missing), missing)

compute_coverage(operations, covered_operation_ids) ==
    LET all_ops == Range(OperationIds(operations))
        covered == Range(covered_operation_ids)
        missing == sorted(all_ops \ covered)
    IN  CoverageResult(Cardinality(all_ops), Cardinality(all_ops) - Len(missing), missing)

----------------------------------------------------------------------------
(* Inputs.                                                                 *)

(* capacity = int(default_model_window * (1 - window_headroom_pct)): the   *)
(* values are chosen around the costs of one word (129), one criterion     *)
(* (148) and one task (168) on an empty description, with zero and a       *)
(* negative window, and a window of two tokens, for which the k-way loop   *)
(* is cut off by its limit of 128 parts.                                   *)
Capacities == {-5, 0, 2, 120, 130, 150, 170, 200, 300}

Floors == {64, 160}

TitleNames == {<<"Epic">>, <<"Backend", "epic">>}

OpLists == {<<>>, <<"opA", "opB">>}

NodeSpec(name, words, task_count, criteria_count, ops) ==
    [domain |-> "be",
     title |-> Title(name),
     description |-> DescWords(words),
     tasks |-> [i \in 1..task_count |-> i],
     acceptance_criteria |-> [i \in 1..criteria_count |-> i],
     contractOps |-> ops,
     requirements_refs |-> <<>>]

AnyNode ==
    {NodeSpec(name, w, t, c, ops) :
        name \in TitleNames, w \in 0..MaxWords, t \in 0..MaxTasks,
        c \in 0..MaxCriteria, ops \in OpLists}

(* The nodes of the longer lists: a light node and a heavy one, as in      *)
(* test_plan_budgets_rewires_edges_for_partition.                          *)
LightNode == NodeSpec(<<"Initialize", "schema">>, 1, 1, 1, <<"opA">>)

HeavyNode == NodeSpec(<<"Backend", "epic">>, MaxWords, MaxTasks, MaxCriteria, <<"opB">>)

RECURSIVE ListsOf(_, _)
ListsOf(S, n) ==
    IF n = 0 THEN {<<>>}
    ELSE {Append(l, x) : l \in ListsOf(S, n - 1), x \in S}

NodeLists ==
    {<<>>} \cup {<<n>> : n \in AnyNode}
           \cup UNION {ListsOf({LightNode, HeavyNode}, n) : n \in 2..MaxNodes}

EdgeTexts == <<"Start to backend", "Backend to tests", "DB schema available", "Repo ready">>

(* Edge lists over n nodes: endpoints are any position, or n, which is no  *)
(* position; the i-th edge carries the i-th text.                          *)
EdgeLists(n) ==
    UNION {
        {[i \in 1..len |->
            EdgeSpec(ends[i][1], ends[i][2],
                     Description(EdgeTexts[((i - 1) % Len(EdgeTexts)) + 1]), "None")] :
         ends \in [1..len -> (0..n) \X (0..n)]}
        : len \in 0..MaxEdges}

----------------------------------------------------------------------------
(* plan_budgets as a state machine.                                        *)

Node == nodes[cur]

(* The partition of the current node is complete: on to the next node.     *)
Return(parts) ==
    /\ partitions_per_node' = Append(partitions_per_node, parts)
    /\ cur' = cur + 1
    /\ pc' = "partition"
    /\ part_count' = 0
    /\ greedy' = GreedyIdle

NoIngestion ==
    [contract |-> [operations |-> <<>>, schemas |-> <<>>], prd |-> [has_ui |-> FALSE]]

Init ==
    /\ ingestion = NoIngestion
    /\ capacity \in Capacities
    /\ token_floor \in Floors
    /\ nodes \in NodeLists
    /\ edges = <<>>
    /\ pc = "partition"
    /\ cur = 1
    /\ part_count = 0
    /\ greedy = GreedyIdle
    /\ partitions_per_node = <<>>
    /\ result = NoResult
    /\ complexities = <<>>
    /\ coverage = NoCoverage
    /\ fit_returned = <<>>

(* _partition_node, lines 93-95: a node within capacity passes through.    *)
PassThrough ==
    /\ pc = "partition"
    /\ cur <= Len(nodes)
    /\ _estimate_node_budget(Node, token_floor) <= capacity
    /\ Return(<< Part(Node, _estimate_node_budget(Node, token_floor)) >>)
    /\ UNCHANGED <<complexities, coverage, fit_returned>>
    /\ UNCHANGED <<ingestion, capacity, token_floor, nodes, edges, result>>

(* _partition_node, line 101: ceil(base_budget / 0) raises.                *)
DivisionByZero ==
    /\ pc = "partition"
    /\ cur <= Len(nodes)
    /\ _estimate_node_budget(Node, token_floor) > capacity
    /\ capacity = 0
    /\ pc' = "raised"
    /\ UNCHANGED <<complexities, coverage, fit_returned>>
    /\ UNCHANGED <<ingestion, capacity, token_floor, nodes, edges, cur, part_count, greedy,
                   partitions_per_node, result>>

(* _partition_node, lines 97-110: an oversized node enters the k-way loop. *)
BeginSplit ==
    /\ pc = "partition"
    /\ cur <= Len(nodes)
    /\ _estimate_node_budget(Node, token_floor) > capacity
    /\ capacity # 0
    /\ pc' = "kway"
    /\ part_count' = required_parts(Node, capacity, token_floor)
    /\ UNCHANGED <<complexities, coverage, fit_returned>>
    /\ UNCHANGED <<ingestion, capacity, token_floor, nodes, edges, cur, greedy,
                   partitions_per_node, result>>

(* One iteration of the loop over part_count, lines 112-157.               *)
KWayIteration ==
    /\ pc = "kway"
    /\ part_count <= max_parts(Node, capacity, token_floor)
    /\ IF KWayValid(Node, capacity, token_floor, part_count)
       THEN Return(KWayParts(Node, capacity, token_floor, part_count))
       ELSE /\ part_count' = part_count + 1
            /\ UNCHANGED <<pc, cur, greedy, partitions_per_node>>
    /\ UNCHANGED <<complexities, coverage, fit_returned>>
    /\ UNCHANGED <<ingestion, capacity, token_floor, nodes, edges, result>>

(* The loop ran out of part counts: lines 159-164 set up the fallback.     *)
KWayExhausted ==
    /\ pc = "kway"
    /\ part_count > max_parts(Node, capacity, token_floor)
    /\ pc' = "greedy"
    /\ greedy' = GreedyStart(Node)
    /\ UNCHANGED <<complexities, coverage, fit_returned>>
    /\ UNCHANGED <<ingestion, capacity, token_floor, nodes, edges, cur, part_count,
                   partitions_per_node, result>>

(* One iteration of the outer while loop, lines 165-213; a part that took  *)
(* nothing breaks out of the loop to the return of lines 215-217.          *)
GreedyIteration ==
    /\ pc = "greedy"
    /\ GreedyPending(greedy)
    /\ LET opened == [greedy EXCEPT !.part_index = @ + 1, !.part_tasks = <<>>,
                                    !.part_criteria = <<>>, !.part_words = <<>>]
           filled == GreedyFill(opened, capacity, token_floor)
       IN  IF filled.part_tasks = <<>> /\ filled.part_criteria = <<>> /\ filled.part_words = <<>>
           THEN Return(IF greedy.partitions = <<>>
                       THEN UnsplitFallback(Node, capacity, token_floor)
                       ELSE greedy.partitions)
           ELSE /\ greedy' = [filled EXCEPT !.partitions =
                                 Append(@, GreedyPart(Node, capacity, token_floor, filled))]
                /\ UNCHANGED <<pc, cur, part_count, partitions_per_node>>
    /\ UNCHANGED <<complexities, coverage, fit_returned>>
    /\ UNCHANGED <<ingestion, capacity, token_floor, nodes, edges, result>>

(* The while loop ends with every queue empty: lines 215-217.              *)
GreedyReturn ==
    /\ pc = "greedy"
    /\ ~GreedyPending(greedy)
    /\ Return(IF greedy.partitions = <<>>
              THEN UnsplitFallback(Node, capacity, token_floor)
              ELSE greedy.partitions)
    /\ UNCHANGED <<complexities, coverage, fit_returned>>
    /\ UNCHANGED <<ingestion, capacity, token_floor, nodes, edges, result>>

(* plan_budgets, lines 271-285, on the edge list it was called with.       *)
Assemble(edge_list) ==
    /\ edges' = edge_list
    /\ result' = PlanBudgetingResult(partitions_per_node, edge_list, nodes, capacity)
    /\ pc' = "done"
    /\ UNCHANGED <<complexities, coverage, fit_returned>>
    /\ UNCHANGED <<ingestion, capacity, token_floor, nodes, cur, part_count, greedy,
                   partitions_per_node>>

PlanBudgets ==
    /\ pc = "partition"
    /\ cur > Len(nodes)
    /\ \E edge_list \in EdgeLists(Len(nodes)) : Assemble(edge_list)

Next ==
    \/ PassThrough
    \/ DivisionByZero
    \/ BeginSplit
    \/ KWayIteration
    \/ KWayExhausted
    \/ GreedyIteration
    \/ GreedyReturn
    \/ PlanBudgets

Spec == Init /\ [][Next]_vars

----------------------------------------------------------------------------
(* The pipeline from a contract: build_plan, then plan_budgets on the      *)
(* nodes and edges it returns.                                             *)

MaxOperations == 2
MaxSchemas == 2

(* summary: the number of words of the operation's summary; mentions: the  *)
(* schema names that occur in the operation's JSON text.                   *)
Operations ==
    {[operation_id |-> "listUsers", tags |-> <<"users">>, summary |-> 2,
      mentions |-> {"User"}],
     [operation_id |-> "createOrder", tags |-> <<"orders", "users">>, summary |-> 0,
      mentions |-> {"Order", "User"}],
     [operation_id |-> "health", tags |-> <<>>, summary |-> 1, mentions |-> {}]}

SchemaNames == {"User", "Order", "Invoice"}

IsInjective(seq) == \A i, j \in 1..Len(seq) : seq[i] = seq[j] => i = j

(* The schemas are the keys of a dict: distinct names in insertion order.  *)
SchemaLists ==
    {names \in UNION {ListsOf(SchemaNames, n) : n \in 0..MaxSchemas} : IsInjective(names)}

Contracts ==
    {[operations |-> ops, schemas |-> names] :
        ops \in UNION {ListsOf(Operations, n) : n \in 0..MaxOperations},
        names \in SchemaLists}

(* <<capacity, token_floor>>: a zero window, a capacity that holds one     *)
(* task, one that holds half a built node, and the default settings.       *)
PlanSettings == {<<0, 64>>, <<170, 64>>, <<250, 64>>, <<180000, 2000>>}

InitPlan ==
    /\ ingestion \in {[contract |-> c, prd |-> [has_ui |-> ui]] :
                          c \in Contracts, ui \in BOOLEAN}
    /\ \E setting \in PlanSettings : capacity = setting[1] /\ token_floor = setting[2]
    /\ nodes = <<>>
    /\ edges = <<>>
    /\ pc = "build"
    /\ cur = 1
    /\ part_count = 0
    /\ greedy = GreedyIdle
    /\ partitions_per_node = <<>>
    /\ result = NoResult
    /\ complexities = <<>>
    /\ coverage = NoCoverage
    /\ fit_returned = <<>>

(* build = build_plan(ingestion)                                           *)
BuildPlan ==
    /\ pc = "build"
    /\ nodes' = build_plan(ingestion).nodes
    /\ edges' = build_plan(ingestion).edges
    /\ pc' = "partition"
    /\ UNCHANGED <<complexities, coverage, fit_returned>>
    /\ UNCHANGED <<ingestion, capacity, token_floor, cur, part_count, greedy,
                   partitions_per_node, result>>

(* plan_budgets(build.nodes, build.edges), lines 271-285.                  *)
PlanBudgetsBuilt ==
    /\ pc = "partition"
    /\ cur > Len(nodes)
    /\ Assemble(edges)

NextPlan ==
    \/ BuildPlan
    \/ PassThrough
    \/ DivisionByZero
    \/ BeginSplit
    \/ KWayIteration
    \/ KWayExhausted
    \/ GreedyIteration
    \/ GreedyReturn
    \/ PlanBudgetsBuilt

SpecPlan == InitPlan /\ [][NextPlan]_vars

----------------------------------------------------------------------------
(* PlannerOrchestrator.create_plan, from build_plan to the construction of *)
(* the Plan record.  `nodes` and `edges` hold build.nodes and build.edges. *)

(* budget = plan_budgets(build.nodes): no edge list is passed, so          *)
(* plan_budgets rewires `edges or []`, the empty list.                     *)
PlanBudgetsNodesOnly ==
    /\ pc = "partition"
    /\ cur > Len(nodes)
    /\ result' = PlanBudgetingResult(partitions_per_node, <<>>, nodes, capacity)
    /\ pc' = "budgeted"
    /\ UNCHANGED <<complexities, coverage, fit_returned>>
    /\ UNCHANGED <<ingestion, capacity, token_floor, nodes, edges, cur, part_count, greedy,
                   partitions_per_node>>

(* complexities = compute_complexity(build.nodes, build.edges)             *)
ComputeComplexity ==
    /\ pc = "budgeted"
    /\ \E ties_up \in [TiePositions(nodes, edges) -> BOOLEAN] :
            complexities' = compute_complexity(nodes, edges, ties_up)
    /\ pc' = "scored"
    /\ UNCHANGED <<ingestion, capacity, token_floor, nodes, edges, cur, part_count, greedy,
                   partitions_per_node, result, coverage, fit_returned>>

(* [op_id for node in build.nodes for op_id in ...get("contractOps", [])]  *)
covered_ops(node_list) ==
    Flatten([i \in 1..Len(node_list) |-> node_list[i].contractOps])

(* coverage = compute_coverage(ingestion.contract.operations, covered_ops) *)
ComputeCoverage ==
    /\ pc = "scored"
    /\ coverage' = compute_coverage(ingestion.contract.operations, covered_ops(nodes))
    /\ pc' = "covered"
    /\ UNCHANGED <<ingestion, capacity, token_floor, nodes, edges, cur, part_count, greedy,
                   partitions_per_node, result, complexities, fit_returned>>

(* Lines 48-58: missing operations raise ValueError; otherwise the Plan    *)
(* record is constructed, and its argument sum(budget.budgets) raises      *)
(* AttributeError, budget being the PlanBudgetingResult, which has the     *)
(* fields nodes, edges and budget only.  Nothing of lines 71-84 is         *)
(* reached: no record is added to the session and no report is stored.     *)
CheckCoverage ==
    /\ pc = "covered"
    /\ pc' = IF coverage.missing_operations # <<>>
             THEN "raised ValueError" ELSE "raised AttributeError"
    /\ UNCHANGED <<ingestion, capacity, token_floor, nodes, edges, cur, part_count, greedy,
                   partitions_per_node, result, complexities, coverage, fit_returned>>

NextCreate ==
    \/ BuildPlan
    \/ PassThrough
    \/ DivisionByZero
    \/ BeginSplit
    \/ KWayIteration
    \/ KWayExhausted
    \/ GreedyIteration
    \/ GreedyReturn
    \/ PlanBudgetsNodesOnly
    \/ ComputeComplexity
    \/ ComputeCoverage
    \/ CheckCoverage

SpecCreate == InitPlan /\ [][NextCreate]_vars

----------------------------------------------------------------------------
(* compute_complexity on its own: a node of any shape with any in-degree   *)
(* and out-degree, next to a peer node that carries the other ends of its  *)
(* edges.                                                                  *)

MaxScoreTasks == 7
MaxDegree == 4
MaxRefs == 2

(* count tasks, distinct_count of them distinct, the first one mentioning  *)
(* research if asked.                                                      *)
TaskLists ==
    {[i \in 1..count |-> IF research /\ i = 1 THEN 0 ELSE ((i - 1) % distinct_count) + 1] :
        count \in 0..MaxScoreTasks, distinct_count \in 1..MaxScoreTasks, research \in BOOLEAN}

ScoreNode(task_list, criteria_count, ref_count, requirement_count) ==
    [domain |-> "be",
     title |-> Title(<<"Epic">>),
     description |-> <<>>,
     tasks |-> task_list,
     acceptance_criteria |-> [i \in 1..criteria_count |-> i],
     contractOps |-> [i \in 1..ref_count |-> "opA"],
     requirements_refs |-> [i \in 1..requirement_count |-> "REQ"]]

(* in_count edges into position 0 and out_count edges out of it.           *)
DegreeEdges(in_count, out_count) ==
    [i \in 1..in_count |-> EdgeSpec(1, 0, Description("Repo ready"), "None")]
    \o [i \in 1..out_count |-> EdgeSpec(0, 1, Description("Backend to tests"), "None")]

InitScore ==
    /\ ingestion = NoIngestion
    /\ capacity = 180000
    /\ token_floor = 2000
    /\ \E task_list \in TaskLists, criteria_count \in 0..MaxCriteria,
          ref_count \in 0..MaxRefs, requirement_count \in 0..MaxRefs :
            nodes = << ScoreNode(task_list, criteria_count, ref_count, requirement_count),
                       LightNode >>
    /\ \E in_count \in 0..MaxDegree, out_count \in 0..MaxDegree :
            edges = DegreeEdges(in_count, out_count)
    /\ pc = "budgeted"
    /\ cur = 1
    /\ part_count = 0
    /\ greedy = GreedyIdle
    /\ partitions_per_node = <<>>
    /\ result = NoResult
    /\ complexities = <<>>
    /\ coverage = NoCoverage
    /\ fit_returned = <<>>

NextScore == ComputeComplexity

SpecScore == InitScore /\ [][NextScore]_vars

----------------------------------------------------------------------------
(* compute_coverage on its own: any operations, and nodes that reference   *)
(* any ids, ids of no operation included.                                  *)

MaxCovered == 2

ReferenceLists ==
    UNION {ListsOf(Range(IdsAscending), n) : n \in 0..MaxCovered}

OperationLists ==
    UNION {ListsOf(Operations, n) : n \in 0..MaxOperations}

InitCoverage ==
    /\ \E ops \in OperationLists :
            ingestion = [contract |-> [operations |-> ops, schemas |-> <<>>],
                         prd |-> [has_ui |-> FALSE]]
    /\ capacity = 180000
    /\ token_floor = 2000
    /\ \E first \in ReferenceLists, second \in ReferenceLists :
            nodes = << BuiltNode("be", <<"Implement", "backend", "handlers", "for", "users">>,
                                 5, first),
                       BuiltNode("test", <<"Construct", "integration", "and", "contract",
                                           "tests">>, 12, second) >>
    /\ edges = <<>>
    /\ pc = "scored"
    /\ cur = 1
    /\ part_count = 0
    /\ greedy = GreedyIdle
    /\ partitions_per_node = <<>>
    /\ result = NoResult
    /\ complexities = <<>>
    /\ coverage = NoCoverage
    /\ fit_returned = <<>>

NextCoverage == ComputeCoverage

SpecCoverage == InitCoverage /\ [][NextCoverage]_vars

----------------------------------------------------------------------------
(* The three domain functions called directly, as a unit test calls them:  *)
(* plan_budgets on a node list and an edge list, compute_complexity on the *)
(* node list and the edges of a graph over it, compute_coverage on a       *)
(* contract's operations and the operation references of the node list.    *)

GraphNodeLists == {<<>>, <<LightNode>>, <<HeavyNode>>, <<LightNode, HeavyNode>>}

(* Edge lists whose endpoints are positions of the n nodes: the lists      *)
(* compute_complexity indexes, [0] * len(nodes), have no other position.   *)
GraphEdgeLists(n) ==
    {edge_list \in EdgeLists(n) :
        \A i \in 1..Len(edge_list) : edge_list[i].from_index < n /\ edge_list[i].to_index < n}

GraphOperationLists == UNION {ListsOf(Operations, n) : n \in 0..1}

InitGraph ==
    /\ \E ops \in GraphOperationLists :
            ingestion = [contract |-> [operations |-> ops, schemas |-> <<>>],
                         prd |-> [has_ui |-> FALSE]]
    /\ capacity \in Capacities
    /\ token_floor \in Floors
    /\ nodes \in GraphNodeLists
    /\ edges = <<>>
    /\ pc = "partition"
    /\ cur = 1
    /\ part_count = 0
    /\ greedy = GreedyIdle
    /\ partitions_per_node = <<>>
    /\ result = NoResult
    /\ complexities = <<>>
    /\ coverage = NoCoverage
    /\ fit_returned = <<>>

(* compute_complexity(nodes, edge_list) for the edges of a graph over the  *)
(* nodes; `edges` keeps the list plan_budgets was called with.             *)
ScoreGraph ==
    /\ pc = "done"
    /\ \E edge_list \in GraphEdgeLists(Len(nodes)) :
        \E ties_up \in [TiePositions(nodes, edge_list) -> BOOLEAN] :
            complexities' = compute_complexity(nodes, edge_list, ties_up)
    /\ pc' = "scored"
    /\ UNCHANGED <<ingestion, capacity, token_floor, nodes, edges, cur, part_count, greedy,
                   partitions_per_node, result, coverage, fit_returned>>

NextGraph ==
    \/ PassThrough
    \/ DivisionByZero
    \/ BeginSplit
    \/ KWayIteration
    \/ KWayExhausted
    \/ GreedyIteration
    \/ GreedyReturn
    \/ PlanBudgets
    \/ ScoreGraph
    \/ ComputeCoverage

SpecGraph == InitGraph /\ [][NextGraph]_vars

----------------------------------------------------------------------------
(* _fit_words_to_capacity on its own: the word list is the description of  *)
(* the single node, the counts are those of its tasks and criteria.        *)

MaxFitWords == 12

(* Capacities from below the estimate of no words (128) to above that of   *)
(* MaxFitWords words with a task and a criterion, and the capacities that  *)
(* make the function return at once.                                       *)
FitCapacities == {-5, 0} \cup 120..210

InitFit ==
    /\ ingestion = NoIngestion
    /\ capacity \in FitCapacities
    /\ token_floor \in Floors
    /\ \E word_count \in 0..MaxFitWords, task_count \in 0..1, criteria_count \in 0..1 :
            nodes = << NodeSpec(<<"Epic">>, word_count, task_count, criteria_count, <<>>) >>
    /\ edges = <<>>
    /\ pc = "fit"
    /\ cur = 1
    /\ part_count = 0
    /\ greedy = GreedyIdle
    /\ partitions_per_node = <<>>
    /\ result = NoResult
    /\ complexities = <<>>
    /\ coverage = NoCoverage
    /\ fit_returned = <<>>

(* _fit_words_to_capacity(words, capacity, len(tasks), len(criteria),      *)
(* floor) returns.                                                         *)
FitWords ==
    /\ pc = "fit"
    /\ fit_returned' = _fit_words_to_capacity(Node.description, capacity, Len(Node.tasks),
                                              Len(Node.acceptance_criteria), token_floor)
    /\ pc' = "fitted"
    /\ UNCHANGED <<ingestion, capacity, token_floor, nodes, edges, cur, part_count, greedy,
                   partitions_per_node, result, complexities, coverage>>

NextFit == FitWords

SpecFit == InitFit /\ [][NextFit]_vars

----------------------------------------------------------------------------
(* Vocabulary of the properties.                                           *)

Done == pc = "done"

(* The base budget as the specification words it.                          *)
BaseBudget(node) ==
    LET words == Len(node.description)
        text == IF (3 * words) \div 2 + 128 >= 32 THEN (3 * words) \div 2 + 128 ELSE 32
        total == text + 40 * Len(node.tasks) + 20 * Len(node.acceptance_criteria)
    IN  IF total >= token_floor THEN total ELSE token_floor

Oversized(n) == BaseBudget(nodes[n]) > capacity

(* The output positions (0-based) of the n-th input node: its parts follow *)
(* those of the nodes before it.                                           *)
FirstPosition(n) == SumLen(SubSeq(partitions_per_node, 1, n - 1))

PartsOf(n) == Len(partitions_per_node[n])

LastPosition(n) == FirstPosition(n) + PartsOf(n) - 1

Positions(n) == FirstPosition(n)..LastPosition(n)

OutputNode(position) == result.nodes[position + 1]

OutputBudget(position) == result.budget.budgets[position + 1]

IsSplit(n) == PartsOf(n) >= 2

TaskTotal(n) ==
    SumLen([i \in 1..PartsOf(n) |-> OutputNode(FirstPosition(n) + i - 1).tasks])

CriteriaTotal(n) ==
    SumLen([i \in 1..PartsOf(n) |->
                OutputNode(FirstPosition(n) + i - 1).acceptance_criteria])

----------------------------------------------------------------------------
(* C1: with tokenBudgetFloor <= capacity, every budget plan_budgets        *)
(* reports is at most the capacity, and the violations list is empty.      *)
C1_BudgetsWithinCapacity ==
    (Done /\ token_floor <= capacity) =>
        /\ \A i \in 1..Len(result.budget.budgets) : result.budget.budgets[i] <= capacity
        /\ result.budget.violations = <<>>

(* An oversized node that could not be split at all is in the result.      *)
C1_Witness ==
    /\ Done
    /\ token_floor <= capacity
    /\ \E n \in 1..Len(nodes) : Oversized(n) /\ ~IsSplit(n)

(* C2 as stated: for every node whose base budget exceeds capacity, the    *)
(* parts' task counts sum to the original task count and their criterion   *)
(* counts to the original criterion count.                                 *)
C2_CountsPreserved ==
    Done =>
        \A n \in 1..Len(nodes) :
            Oversized(n) =>
                /\ TaskTotal(n) = Len(nodes[n].tasks)
                /\ CriteriaTotal(n) = Len(nodes[n].acceptance_criteria)

(* C2 amended: the task counts sum to the original when one task on an     *)
(* empty description fits the capacity, max(168, floor) <= capacity, and   *)
(* the criterion counts when one criterion does, max(148, floor) <=        *)
(* capacity.                                                               *)
C2_CountsPreservedWhenOneItemFits ==
    Done =>
        \A n \in 1..Len(nodes) :
            Oversized(n) =>
                /\ (168 <= capacity /\ token_floor <= capacity)
                        => TaskTotal(n) = Len(nodes[n].tasks)
                /\ (148 <= capacity /\ token_floor <= capacity)
                        => CriteriaTotal(n) = Len(nodes[n].acceptance_criteria)

(* A node with several tasks and criteria was split under a capacity that  *)
(* holds a single task.                                                    *)
C2_Witness ==
    /\ Done
    /\ 168 <= capacity /\ token_floor <= capacity
    /\ \E n \in 1..Len(nodes) :
        /\ Oversized(n) /\ IsSplit(n)
        /\ Len(nodes[n].tasks) >= 2
        /\ Len(nodes[n].acceptance_criteria) >= 1

(* C3: a node whose base budget is within capacity yields exactly one      *)
(* output node, the input node itself, reported with that base budget.     *)
C3_PassThrough ==
    Done =>
        \A n \in 1..Len(nodes) :
            ~Oversized(n) =>
                /\ PartsOf(n) = 1
                /\ OutputNode(FirstPosition(n)) = nodes[n]
                /\ OutputBudget(FirstPosition(n)) = BaseBudget(nodes[n])

(* A node within capacity passed through next to a node that was split.    *)
C3_Witness ==
    /\ Done
    /\ \E n, m \in 1..Len(nodes) : ~Oversized(n) /\ IsSplit(m)

ValidPosition(index) == index \in 0..(Len(nodes) - 1)

(* C4: every original edge (u, v) between valid positions has a rewired    *)
(* edge from the last part of u to the first part of v with the original   *)
(* description.                                                            *)
C4_EdgesRewired ==
    Done =>
        \A i \in 1..Len(edges) :
            (ValidPosition(edges[i].from_index) /\ ValidPosition(edges[i].to_index)) =>
                \E j \in 1..Len(result.edges) :
                    /\ result.edges[j].from_index = LastPosition(edges[i].from_index + 1)
                    /\ result.edges[j].to_index = FirstPosition(edges[i].to_index + 1)
                    /\ result.edges[j].description = edges[i].description

(* An edge leaves a node that was split and enters another node.           *)
C4_Witness ==
    /\ Done
    /\ \E i \in 1..Len(edges) :
        /\ ValidPosition(edges[i].from_index) /\ ValidPosition(edges[i].to_index)
        /\ edges[i].from_index # edges[i].to_index
        /\ IsSplit(edges[i].from_index + 1)

IsPartitionOrder(edge) == edge.description.text = "Partition order for"

(* C5: the parts of a split node are chained by partition-order edges      *)
(* between consecutive parts, labelled with the original title, and there  *)
(* is no other partition-order edge.                                       *)
C5_PartitionOrderChain ==
    Done =>
        /\ \A n \in 1..Len(nodes) :
            IsSplit(n) =>
                \A p \in FirstPosition(n)..(LastPosition(n) - 1) :
                    \E j \in 1..Len(result.edges) :
                        /\ result.edges[j].from_index = p
                        /\ result.edges[j].to_index = p + 1
                        /\ result.edges[j].description =
                               [text |-> "Partition order for", title |-> nodes[n].title.name]
        /\ \A j \in 1..Len(result.edges) :
            IsPartitionOrder(result.edges[j]) =>
                \E n \in 1..Len(nodes) :
                    /\ result.edges[j].from_index \in Positions(n)
                    /\ result.edges[j].to_index \in Positions(n)
                    /\ result.edges[j].to_index = result.edges[j].from_index + 1

(* A node was split into three parts or more.                              *)
C5_Witness ==
    /\ Done
    /\ \E n \in 1..Len(nodes) : PartsOf(n) >= 3

(* The node of Scenario C: a single task, an empty description and no      *)
(* acceptance criteria.                                                    *)
SingleTaskNode(n) ==
    /\ Len(nodes[n].tasks) = 1
    /\ nodes[n].description = <<>>
    /\ nodes[n].acceptance_criteria = <<>>

InViolations(position) ==
    \E i \in 1..Len(result.budget.violations) : result.budget.violations[i] = position

(* C6: when a single task alone exceeds the capacity (128 + 40 > capacity, *)
(* floor <= capacity), the output positions of that node are in the        *)
(* violations list.                                                        *)
C6_SingleTaskFlagged ==
    Done =>
        \A n \in 1..Len(nodes) :
            (SingleTaskNode(n) /\ 128 + 40 > capacity /\ token_floor <= capacity) =>
                \A p \in Positions(n) : InViolations(p)

(* C7: when tokenBudgetFloor > capacity, every output position is in the   *)
(* violations list.                                                        *)
C7_FloorAboveCapacityFlagged ==
    (Done /\ token_floor > capacity) =>
        \A p \in 0..(Len(result.nodes) - 1) : InViolations(p)

(* The words of a part's description that come from the original           *)
(* description: the description with its continuation note removed.        *)
WithoutNote(description) == SelectSeq(description, LAMBDA word : word.kind = "desc")

DescriptionsOf(n) ==
    Flatten([i \in 1..PartsOf(n) |->
                WithoutNote(OutputNode(FirstPosition(n) + i - 1).description)])

(* C8: for every node that was split, the parts' descriptions in part      *)
(* order, continuation notes removed, are the original word sequence.      *)
C8_DescriptionWordsPreserved ==
    Done =>
        \A n \in 1..Len(nodes) :
            IsSplit(n) => DescriptionsOf(n) = nodes[n].description

ContractOpsOf(node_list) ==
    UNION {Range(node_list[i].contractOps) : i \in 1..Len(node_list)}

(* C9: the union of the contractOps lists of the output nodes equals the   *)
(* union over the input nodes.                                             *)
C9_ContractOpsPreserved ==
    Done => ContractOpsOf(result.nodes) = ContractOpsOf(nodes)

(* Operation references went through a k-way split, a greedy split or the  *)
(* unsplit fallback.                                                       *)
C9_Witness ==
    /\ Done
    /\ \E n \in 1..Len(nodes) :
        /\ nodes[n].contractOps # <<>>
        /\ Oversized(n)
        /\ \/ IsSplit(n) /\ OutputNode(FirstPosition(n)).title.of = 0
           \/ ~IsSplit(n)

IndexSafe(edge_list, count) ==
    \A i \in 1..Len(edge_list) :
        /\ 0 <= edge_list[i].from_index
        /\ edge_list[i].from_index < edge_list[i].to_index
        /\ edge_list[i].to_index < count

(* C10: every edge (i, j) build_plan returns has 0 <= i < j < number of    *)
(* nodes, and so has every edge plan_budgets returns for build_plan's      *)
(* nodes and edges, against the number of output nodes.                    *)
C10_EdgesForwardAndInBounds ==
    /\ pc # "build" => IndexSafe(edges, Len(nodes))
    /\ Done => IndexSafe(result.edges, Len(result.nodes))

(* A plan with database, backend and frontend nodes went through           *)
(* plan_budgets and some of its nodes were split.                          *)
C10_Witness ==
    /\ Done
    /\ ingestion.prd.has_ui
    /\ Len(ingestion.contract.schemas) >= 2
    /\ Len(build_backend_nodes(ingestion.contract)) >= 2
    /\ Len(result.nodes) > Len(nodes)

Remaining(g) == Len(g.remaining_tasks) + Len(g.remaining_criteria) + Len(g.remaining_words)

(* C11: _partition_node terminates: an iteration of the k-way loop runs    *)
(* with part_count in 2..128 and either returns or moves on to             *)
(* part_count + 1, so the loop runs at most 128 times; an iteration of the *)
(* greedy fallback's outer loop either leaves the loop or takes at least   *)
(* one item off the remaining task, criterion and word queues.             *)
C11_PartitionNodeTerminates ==
    /\ [][KWayIteration =>
            (part_count \in 2..128 /\ (pc' = "kway" => part_count' = part_count + 1))]_vars
    /\ [][GreedyIteration =>
            (pc' # "greedy" \/ Remaining(greedy') < Remaining(greedy))]_vars

(* The k-way loop ran through part_count = 128 without a valid split and   *)
(* the greedy fallback is about to run on the node's items.                *)
C11_Witness ==
    /\ pc = "greedy"
    /\ part_count = 129
    /\ GreedyPending(greedy)

(* C12: plan_budgets raises no error, whatever the capacity and the floor, *)
(* and its result has at least one output node for every input node.       *)
C12_NeverRaises ==
    /\ pc # "raised"
    /\ Done =>
        /\ Len(partitions_per_node) = Len(nodes)
        /\ \A n \in 1..Len(nodes) : PartsOf(n) >= 1

----------------------------------------------------------------------------
(* Vocabulary of the properties of build_plan: `nodes` and `edges` hold    *)
(* its result from the step BuildPlan on.                                  *)

Built == pc # "build"

(* The phase of a built node: its domain, the provisioning node being the  *)
(* node of domain package titled "Request: ...".                           *)
PhaseOf(node) ==
    IF node.domain = "package" /\ Head(node.title.name) = "Request:"
    THEN "provision" ELSE node.domain

PhaseRank(phase) ==
    CASE phase = "provision" -> 0
      [] phase = "db" -> 1
      [] phase = "be" -> 2
      [] phase = "fe" -> 3
      [] phase = "test" -> 4
      [] phase = "package" -> 5

(* The positions (0-based) of the built nodes of a phase.                  *)
PhasePositions(phase) ==
    {p \in 0..(Len(nodes) - 1) : PhaseOf(nodes[p + 1]) = phase}

(* The number of built edges from position u to position v.                *)
EdgeCount(u, v) ==
    Cardinality({i \in 1..Len(edges) : edges[i].from_index = u /\ edges[i].to_index = v})

(* C13: build_plan returns the provisioning node at position 0, then the   *)
(* database nodes, the backend nodes, the frontend nodes, exactly one test *)
(* node and exactly one packaging node, the last; there is no frontend     *)
(* node when the PRD's hasUi flag is false.                                *)
C13_PhaseOrder ==
    Built =>
        /\ PhasePositions("provision") = {0}
        /\ \A p, q \in 0..(Len(nodes) - 1) :
                p < q => PhaseRank(PhaseOf(nodes[p + 1])) <= PhaseRank(PhaseOf(nodes[q + 1]))
        /\ Cardinality(PhasePositions("test")) = 1
        /\ PhasePositions("package") = {Len(nodes) - 1}
        /\ ~ingestion.prd.has_ui => PhasePositions("fe") = {}

(* A plan was built with two database nodes, two backend nodes and         *)
(* frontend nodes.                                                         *)
C13_Witness ==
    /\ Built
    /\ Cardinality(PhasePositions("db")) = 2
    /\ Cardinality(PhasePositions("be")) = 2
    /\ Cardinality(PhasePositions("fe")) >= 2

(* C14: build_plan returns exactly one edge from every database node to    *)
(* every backend node and from every backend node to every frontend node,  *)
(* and no edge from a database node to a frontend node.                    *)
C14_AdjacentPhasesFullyLinked ==
    Built =>
        /\ \A u \in PhasePositions("db") : \A v \in PhasePositions("be") : EdgeCount(u, v) = 1
        /\ \A u \in PhasePositions("be") : \A v \in PhasePositions("fe") : EdgeCount(u, v) = 1
        /\ \A u \in PhasePositions("db") : \A v \in PhasePositions("fe") : EdgeCount(u, v) = 0

(* A plan was built with a user interface, two database nodes and two      *)
(* backend nodes, one operation being untagged.                            *)
C14_Witness ==
    /\ Built
    /\ ingestion.prd.has_ui
    /\ Cardinality(PhasePositions("db")) = 2
    /\ Cardinality(PhasePositions("be")) = 2
    /\ \E i \in 1..Len(ingestion.contract.operations) :
            ingestion.contract.operations[i].tags = <<>>

TestPosition == Len(nodes) - 2

PackagePosition == Len(nodes) - 1

(* C15: the test node has exactly one incoming edge from each database,    *)
(* backend and frontend node and none from any other node; the packaging   *)
(* node has exactly one incoming edge, from the test node.                 *)
C15_TestAndPackageInEdges ==
    Built =>
        /\ \A u \in 0..(Len(nodes) - 1) :
                EdgeCount(u, TestPosition) =
                    (IF PhaseOf(nodes[u + 1]) \in {"db", "be", "fe"} THEN 1 ELSE 0)
        /\ \A u \in 0..(Len(nodes) - 1) :
                EdgeCount(u, PackagePosition) = (IF u = TestPosition THEN 1 ELSE 0)

(* A plan was built whose test node follows at least two database nodes,   *)
(* a backend node and frontend nodes.                                      *)
C15_Witness ==
    /\ Built
    /\ PhaseOf(nodes[TestPosition + 1]) = "test"
    /\ Cardinality(PhasePositions("db")) >= 2
    /\ Cardinality(PhasePositions("be")) >= 1
    /\ Cardinality(PhasePositions("fe")) >= 3

(* The backend nodes of the built plan in plan order, and the tag each     *)
(* was built for: the last word of "Implement backend handlers for <tag>". *)
BackendNodes == SelectSeq(nodes, LAMBDA node : node.domain = "be")

BackendTag(node) == node.title.name[Len(node.title.name)]

ContractOperations == ingestion.contract.operations

(* Every tag of every operation's tag list.                                *)
AllTags ==
    UNION {Range(ContractOperations[i].tags) : i \in 1..Len(ContractOperations)}

(* The first tag of an operation, "default" for an operation without tags. *)
PrimaryTag(op) == IF Len(op.tags) = 0 THEN "default" ELSE Head(op.tags)

PrimaryTags == {PrimaryTag(ContractOperations[i]) : i \in 1..Len(ContractOperations)}

(* The position in the contract of the first operation filed under `tag`.  *)
FirstFiled(tag) ==
    CHOOSE i \in 1..Len(ContractOperations) :
        /\ PrimaryTag(ContractOperations[i]) = tag
        /\ \A j \in 1..(i - 1) : PrimaryTag(ContractOperations[j]) # tag

(* The first position in the contract at which `tag` occurs in a tag list. *)
FirstOccurrence(tag) ==
    CHOOSE i \in 1..Len(ContractOperations) :
        /\ tag \in Range(ContractOperations[i].tags)
        /\ \A j \in 1..(i - 1) : tag \notin Range(ContractOperations[j].tags)

FiledUnder(tag) ==
    LET filed == SelectSeq(ContractOperations, LAMBDA op : PrimaryTag(op) = tag)
    IN  [i \in 1..Len(filed) |-> filed[i].operation_id]

(* C16 as stated: there is exactly one backend node per distinct tag that  *)
(* appears in any operation's tag list, and the backend nodes are in the   *)
(* order of the first occurrence of their tags in the contract.            *)
C16_OneNodePerTag ==
    Built =>
        /\ {BackendTag(BackendNodes[i]) : i \in 1..Len(BackendNodes)} = AllTags
        /\ Len(BackendNodes) = Cardinality(AllTags)
        /\ \A i, j \in 1..Len(BackendNodes) :
                i < j => FirstOccurrence(BackendTag(BackendNodes[i]))
                            < FirstOccurrence(BackendTag(BackendNodes[j]))

(* C16 amended: there is exactly one backend node per distinct primary tag *)
(* (an operation's first tag, "default" for an operation without tags),    *)
(* the backend nodes are in the order in which their primary tags first    *)
(* occur in the contract, and each node lists the operations filed under   *)
(* its tag in contract order.                                              *)
C16_OneNodePerPrimaryTag ==
    Built =>
        /\ {BackendTag(BackendNodes[i]) : i \in 1..Len(BackendNodes)} = PrimaryTags
        /\ Len(BackendNodes) = Cardinality(PrimaryTags)
        /\ \A i, j \in 1..Len(BackendNodes) :
                i < j => FirstFiled(BackendTag(BackendNodes[i]))
                            < FirstFiled(BackendTag(BackendNodes[j]))
        /\ \A i \in 1..Len(BackendNodes) :
                BackendNodes[i].contractOps = FiledUnder(BackendTag(BackendNodes[i]))

(* Two backend nodes were built from a contract one of whose operations    *)
(* carries a second tag that no backend node is built for.                 *)
C16_Witness ==
    /\ Built
    /\ Len(BackendNodes) = 2
    /\ \E tag \in AllTags :
            \A i \in 1..Len(BackendNodes) : BackendTag(BackendNodes[i]) # tag

----------------------------------------------------------------------------
(* Vocabulary of the properties of create_plan's stages.                   *)

Scored == pc \in {"scored", "covered", "raised ValueError", "raised AttributeError"}

Covered == pc \in {"covered", "raised ValueError", "raised AttributeError"}

(* C17: for every node and every in-degree and out-degree, ccs lies in     *)
(* [0, 100], recommended_subtasks is ceil(ccs / 15) and at least 1, and    *)
(* confidence lies in [0.5, 1] (values in hundredths).                     *)
C17_ScoreRanges ==
    Scored =>
        \A i \in 1..Len(complexities) :
            LET b == complexities[i]
            IN  /\ 0 <= b.ccs /\ b.ccs <= 100 * 100
                /\ b.recommended_subtasks >= 1
                /\ 15 * 100 * (b.recommended_subtasks - 1) < b.ccs
                /\ b.ccs <= 15 * 100 * b.recommended_subtasks
                /\ 50 <= b.confidence /\ b.confidence <= 100

(* A node was scored whose degrees, task and criterion counts and distinct *)
(* tasks all exceed the caps of their components, with a research task.    *)
C17_Witness ==
    /\ Scored
    /\ Len(edges) + Len(nodes[1].contractOps) > 6
    /\ Len(nodes[1].tasks) + Len(nodes[1].acceptance_criteria) > 8
    /\ Cardinality(Range(nodes[1].tasks)) > 6
    /\ complexities[1].r = 40 * 100

(* C18: create_plan scores and checks the partitioner's output: the list   *)
(* compute_complexity returned is the one for the nodes and edges that     *)
(* plan_budgets returned, and the coverage is that of those nodes.         *)
C18_StagesRunOnPartitionerOutput ==
    /\ Scored =>
            \E ties_up \in [TiePositions(result.nodes, result.edges) -> BOOLEAN] :
                complexities = compute_complexity(result.nodes, result.edges, ties_up)
    /\ Covered =>
            coverage = compute_coverage(ingestion.contract.operations,
                                        covered_ops(result.nodes))

ContractIds ==
    {ingestion.contract.operations[i].operation_id :
        i \in 1..Len(ingestion.contract.operations)}

ReferencedIds ==
    UNION {Range(nodes[i].contractOps) : i \in 1..Len(nodes)}

(* Python's str order on the operation ids of the model.                   *)
IdBefore(a, b) ==
    <<a, b>> \in {<<"createOrder", "foreignOp">>, <<"createOrder", "health">>,
                  <<"createOrder", "listUsers">>, <<"foreignOp", "health">>,
                  <<"foreignOp", "listUsers">>, <<"health", "listUsers">>}

(* C20: missing_operations is the ascending list of the contract's         *)
(* operation ids that no node references, total_operations is the number   *)
(* of distinct contract operation ids, covered_operations plus the number  *)
(* of missing ids is that total, and covered_operations counts the         *)
(* contract ids that are referenced, whatever else is referenced.          *)
C20_CoverageResult ==
    Covered =>
        /\ Range(coverage.missing_operations) = ContractIds \ ReferencedIds
        /\ \A i, j \in 1..Len(coverage.missing_operations) :
                i < j => IdBefore(coverage.missing_operations[i], coverage.missing_operations[j])
        /\ coverage.total_operations = Cardinality(ContractIds)
        /\ coverage.covered_operations + Len(coverage.missing_operations)
                = coverage.total_operations
        /\ coverage.covered_operations = Cardinality(ContractIds \cap ReferencedIds)

(* Two operations are missing, the contract names them in descending       *)
(* order, and a node references an id of no operation.                     *)
C20_Witness ==
    /\ Covered
    /\ Len(coverage.missing_operations) = 2
    /\ ingestion.contract.operations[1].operation_id = coverage.missing_operations[2]
    /\ "foreignOp" \in ReferencedIds

----------------------------------------------------------------------------
(* Vocabulary of the properties of the functions on empty input.           *)

Budgeted == pc \in {"done", "scored", "covered"}

(* The PlanBudgetingResult without nodes, edges, budgets and violations.   *)
EmptyResult ==
    /\ result.nodes = <<>>
    /\ result.edges = <<>>
    /\ result.budget.budgets = <<>>
    /\ result.budget.violations = <<>>

----------------------------------------------------------------------------
(* Vocabulary of the properties of the parts of a split node.              *)

EndsWith(s, t) ==
    /\ Len(s) >= Len(t)
    /\ SubSeq(s, Len(s) - Len(t) + 1, Len(s)) = t

(* The i-th part (1-based) of the n-th input node.                         *)
PartOf(n, i) == OutputNode(FirstPosition(n) + i - 1)

(* C22: every part plan_budgets produces for a split node has a            *)
(* description that ends with the complete continuation note               *)
(* "Subtask i of k continuing <title>.", i being the part's 1-based        *)
(* position and k the number of parts of the node.                         *)
C22_PartsEndWithContinuationNote ==
    Done =>
        \A n \in 1..Len(nodes) :
            IsSplit(n) =>
                \A i \in 1..PartsOf(n) :
                    EndsWith(PartOf(n, i).description,
                             NoteWords(i, PartsOf(n), nodes[n].title))


(* The n-th input node was split by the k-way search: its parts are titled *)
(* "(part i of k)".                                                        *)
KWaySplit(n) == IsSplit(n) /\ PartOf(n, 1).title.of # 0

(* k_min = max(2, ceil(base / capacity)) for a positive capacity.          *)
KMin(n) == Max(2, (BaseBudget(nodes[n]) + capacity - 1) \div capacity)

(* k_max: twice k_min, the number of tasks and criteria, or the number of  *)
(* description words, whichever is largest, and at most 128.               *)
KMax(n) ==
    LET items == Len(nodes[n].tasks) + Len(nodes[n].acceptance_criteria)
        words == Len(nodes[n].description)
        widest == Max(2 * KMin(n), Max(items, words))
    IN  IF widest <= 128 THEN widest ELSE 128

(* Every one of the k chunk-parts of the n-th input node is within         *)
(* capacity.                                                               *)
AllPartsFit(n, k) ==
    \A idx \in 0..(k - 1) :
        KWayPart(nodes[n], capacity, token_floor, k, idx).budget <= capacity

(* C23: when the k-way search succeeds, the number of parts returned is    *)
(* the smallest k with k_min <= k <= k_max for which every one of the k    *)
(* chunk-parts has budget <= capacity: every smaller k of that range has a *)
(* part over capacity.                                                     *)
C23_SmallestValidPartCount ==
    Done =>
        \A n \in 1..Len(nodes) :
            KWaySplit(n) =>
                /\ capacity > 0
                /\ PartsOf(n) \in KMin(n)..KMax(n)
                /\ AllPartsFit(n, PartsOf(n))
                /\ \A k \in KMin(n)..(PartsOf(n) - 1) : ~AllPartsFit(n, k)

(* The k-way search succeeded on a part count above k_min.                 *)
C23_Witness ==
    /\ Done
    /\ \E n \in 1..Len(nodes) : KWaySplit(n) /\ capacity > 0 /\ PartsOf(n) > KMin(n)

----------------------------------------------------------------------------
(* Vocabulary of the properties of _fit_words_to_capacity.                 *)

Fitted == pc = "fitted"

(* The budget of a part with the first word_count words of the list, as    *)
(* the specification words it.                                             *)
PrefixBudget(word_count) ==
    LET text == IF (3 * word_count) \div 2 + 128 >= 32
                THEN (3 * word_count) \div 2 + 128 ELSE 32
        total == text + 40 * Len(nodes[1].tasks) + 20 * Len(nodes[1].acceptance_criteria)
    IN  IF total >= token_floor THEN total ELSE token_floor

(* The prefix lengths of the word list that are within capacity.           *)
FittingLengths == {k \in 0..Len(nodes[1].description) : PrefixBudget(k) <= capacity}

(* C24: _fit_words_to_capacity returns the longest prefix of the word list *)
(* whose budget is <= capacity, as a scan over all prefix lengths finds    *)
(* it, and the empty list when not even the empty prefix fits.             *)
C24_LongestFittingPrefix ==
    Fitted =>
        IF FittingLengths = {}
        THEN fit_returned = <<>>
        ELSE \E k \in FittingLengths :
                /\ \A j \in FittingLengths : j <= k
                /\ fit_returned = SubSeq(nodes[1].description, 1, k)

(* The function returned a proper, non-empty prefix of a list of which     *)
(* longer prefixes do not fit.                                             *)
C24_Witness ==
    /\ Fitted
    /\ Len(fit_returned) >= 4
    /\ Len(nodes[1].description) >= Len(fit_returned) + 4
    /\ Len(nodes[1].tasks) = 1


(* The n-th input node went through the greedy fallback: its parts are     *)
(* titled "(part i)".                                                      *)
GreedySplit(n) == PartOf(n, 1).title.part # 0 /\ PartOf(n, 1).title.of = 0

(* The length of the longest common prefix of two sequences.               *)
RECURSIVE CommonPrefixLen(_, _)
CommonPrefixLen(s, t) ==
    IF s = <<>> \/ t = <<>> \/ Head(s) # Head(t) THEN 0
    ELSE 1 + CommonPrefixLen(Tail(s), Tail(t))

(* The number of words of the original description that parts 1..i of the  *)
(* n-th input node hold between them when each part takes up the           *)
(* description where the part before it left off.                          *)
RECURSIVE WordsAssigned(_, _)
WordsAssigned(n, i) ==
    IF i = 0 THEN 0
    ELSE LET before == WordsAssigned(n, i - 1)
             rest == SubSeq(nodes[n].description, before + 1, Len(nodes[n].description))
         IN  before + CommonPrefixLen(rest, PartOf(n, i).description)

TasksOf(n) == Flatten([i \in 1..PartsOf(n) |-> PartOf(n, i).tasks])

CriteriaOf(n) == Flatten([i \in 1..PartsOf(n) |-> PartOf(n, i).acceptance_criteria])

(* A part that holds one task, one criterion or one description word and   *)
(* nothing else is within capacity.                                        *)
SingleItemsFit ==
    /\ token_floor <= capacity
    /\ 128 + 40 <= capacity
    /\ 128 + 20 <= capacity
    /\ 129 <= capacity

(* C25: when a part holding any single task, criterion or description word *)
(* on its own is within capacity, and floor <= capacity, the greedy        *)
(* fallback drops nothing: the parts' tasks in part order are the          *)
(* original's tasks, their criteria the original's criteria, and the       *)
(* original's description words are spread over the parts in order, each   *)
(* part continuing where the one before it stopped.                        *)
C25_GreedyDropsNothing ==
    (Done /\ SingleItemsFit) =>
        \A n \in 1..Len(nodes) :
            GreedySplit(n) =>
                /\ TasksOf(n) = nodes[n].tasks
                /\ CriteriaOf(n) = nodes[n].acceptance_criteria
                /\ WordsAssigned(n, PartsOf(n)) = Len(nodes[n].description)

(* The greedy fallback spread tasks, criteria and several words over three *)
(* parts or more.                                                          *)
C25_Witness ==
    /\ Done
    /\ SingleItemsFit
    /\ \E n \in 1..Len(nodes) :
        /\ GreedySplit(n)
        /\ PartsOf(n) >= 3
        /\ Len(nodes[n].tasks) >= 2
        /\ Len(nodes[n].acceptance_criteria) >= 1
        /\ Len(nodes[n].description) >= 2


(* C26: every budget plan_budgets reports is the base budget of the output *)
(* node at the same position: description estimate + 40 per task + 20 per  *)
(* criterion, floored.                                                     *)
C26_BudgetsAreTrueEstimates ==
    Done =>
        \A p \in 0..(Len(result.nodes) - 1) : OutputBudget(p) = BaseBudget(OutputNode(p))


(* The positions (1-based) in a sequence of `total` items of the i-th of k *)
(* near-equal contiguous chunks, the first total % k chunks one longer.    *)
ChunkPositions(total, k, i) ==
    LET size == total \div k + (IF i <= total % k THEN 1 ELSE 0)
        start == (i - 1) * (total \div k) + (IF i - 1 <= total % k THEN i - 1 ELSE total % k)
    IN  (start + 1)..(start + size)

(* The i-th part of the n-th input node holds a word of its own chunk of   *)
(* the original description: for a k-way part the i-th of k chunks, for a  *)
(* greedy part the words that follow those of the parts before it.         *)
HoldsOwnWord(n, i) ==
    IF PartOf(n, i).title.of # 0
    THEN \E j \in 1..Len(PartOf(n, i).description) :
            LET word == PartOf(n, i).description[j]
            IN  /\ word.kind = "desc"
                /\ word.pos \in ChunkPositions(Len(nodes[n].description), PartsOf(n), i)
    ELSE WordsAssigned(n, i) > WordsAssigned(n, i - 1)

(* C27: no part of a split node is vacuous: each of the two or more parts  *)
(* of an original node holds one of its tasks, or one of its acceptance    *)
(* criteria, or a description word from the part's own chunk of the        *)
(* original description.                                                   *)
C27_NoVacuousPart ==
    Done =>
        \A n \in 1..Len(nodes) :
            IsSplit(n) =>
                \A i \in 1..PartsOf(n) :
                    \/ PartOf(n, i).tasks # <<>>
                    \/ PartOf(n, i).acceptance_criteria # <<>>
                    \/ HoldsOwnWord(n, i)

(* A k-way split produced a part that holds nothing but words of its own   *)
(* chunk, next to a part that holds a task.                                *)
C27_Witness ==
    /\ Done
    /\ \E n \in 1..Len(nodes) :
        /\ KWaySplit(n)
        /\ \E i \in 1..PartsOf(n) :
                PartOf(n, i).tasks = <<>> /\ PartOf(n, i).acceptance_criteria = <<>>
        /\ \E i \in 1..PartsOf(n) : PartOf(n, i).tasks # <<>>


----------------------------------------------------------------------------
(* Vocabulary of the properties of the built plan in create_plan.          *)

PlanBudgeted == pc \in {"budgeted", "scored", "covered", "raised ValueError",
                        "raised AttributeError"}

(* C28: every plan build_plan produces has complete coverage: each         *)
(* operation id of the contract is in the test node's contractOps list,    *)
(* compute_coverage over the built nodes, and over the nodes plan_budgets  *)
(* returns for them, has an empty missing list, and create_plan never      *)
(* takes its fatal missing-coverage branch.                                *)
C28_BuiltPlanFullyCovered ==
    /\ Built =>
        /\ ContractIds \subseteq Range(nodes[TestPosition + 1].contractOps)
        /\ compute_coverage(ingestion.contract.operations,
                            covered_ops(nodes)).missing_operations = <<>>
    /\ PlanBudgeted =>
            compute_coverage(ingestion.contract.operations,
                             covered_ops(result.nodes)).missing_operations = <<>>
    /\ Covered => coverage.missing_operations = <<>>
    /\ pc # "raised ValueError"

(* create_plan passed its coverage check on a contract with two different  *)
(* operations whose plan has nodes that plan_budgets split.                *)
C28_Witness ==
    /\ pc = "raised AttributeError"
    /\ coverage.total_operations = 2
    /\ Len(result.nodes) > Len(nodes)


(* The positions reachable from the positions `reached` along built edges. *)
RECURSIVE ReachableFrom(_)
ReachableFrom(reached) ==
    LET next == reached \cup {edges[i].to_index :
                                i \in {j \in 1..Len(edges) : edges[j].from_index \in reached}}
    IN  IF next = reached THEN reached ELSE ReachableFrom(next)

(* C29: in every graph build_plan returns, every node other than node 0 is *)
(* reachable from node 0, the provisioning node, along edges.              *)
C29_AllReachableFromProvisioning ==
    Built => \A p \in 1..(Len(nodes) - 1) : p \in ReachableFrom({0})


----------------------------------------------------------------------------
(* Vocabulary of the properties of plan_budgets' output order.             *)

(* The output node at `position` is the part-th of `count` outputs of the  *)
(* original node: the original itself, or a node that carries its title    *)
(* with the part number.                                                   *)
IsOutputOf(position, original, part, count) ==
    \/ count = 1 /\ OutputNode(position) = original
    \/ /\ OutputNode(position).title.name = original.title.name
       /\ OutputNode(position).title.part = part

(* C30: plan_budgets expands nodes in place and in order: the output       *)
(* positions of original node i are a non-empty contiguous ascending       *)
(* block, the blocks of nodes 0..n-1 follow each other in original order   *)
(* and exactly cover the output positions, the nodes of a block are the    *)
(* parts of its original in part order, and the budgets list is as long as *)
(* the output node list.                                                   *)
C30_ExpandedInPlaceAndInOrder ==
    Done =>
        LET index_mapping == IndexMapping(partitions_per_node)
            count == Len(nodes)
        IN  /\ DOMAIN index_mapping = 0..(count - 1)
            /\ \A i \in 0..(count - 1) :
                /\ index_mapping[i] # <<>>
                /\ \A j \in 1..(Len(index_mapping[i]) - 1) :
                        index_mapping[i][j + 1] = index_mapping[i][j] + 1
                /\ index_mapping[i][1] =
                        (IF i = 0 THEN 0
                         ELSE index_mapping[i - 1][Len(index_mapping[i - 1])] + 1)
                /\ \A j \in 1..Len(index_mapping[i]) :
                        /\ index_mapping[i][j] \in 0..(Len(result.nodes) - 1)
                        /\ IsOutputOf(index_mapping[i][j], nodes[i + 1], j,
                                      Len(index_mapping[i]))
            /\ (IF count = 0 THEN 0
                ELSE index_mapping[count - 1][Len(index_mapping[count - 1])] + 1)
                    = Len(result.nodes)
            /\ Len(result.budget.budgets) = Len(result.nodes)

(* Two nodes went through plan_budgets, the first was split into three     *)
(* parts or more and the second into two or more.                          *)
C30_Witness ==
    /\ Done
    /\ Len(nodes) = 2
    /\ PartsOf(1) >= 3
    /\ PartsOf(2) >= 2

====
